---------------------------- MODULE Spec2Model ----------------------------
(***************************************************************************)
(* Model of the unixconn client (src/src/lib.rs): the frame codec          *)
(* (message_to_bytes, parse_message, read_message) and Client              *)
(* (new, close, do_request) over a Unix stream socket.                     *)
(*                                                                         *)
(* Bytes are naturals 0..255.  A Rust String is modelled as the sequence   *)
(* of its Unicode scalar values; String::as_bytes is the UTF-8 encoding    *)
(* and String::from_utf8 the validating UTF-8 decoding.                    *)
(***************************************************************************)
EXTENDS Naturals, Sequences, FiniteSets, TLC

(* ------------------------------ bounds -------------------------------- *)
\* longest text field (in characters) of a Message given to the codec
MaxText == 1
\* longest body (in bytes) of a Message given to the codec
MaxBody == 2
\* longest raw byte sequence handed to the decoder
MaxRaw == 5
\* do_request calls made on the Client
MaxCalls == 2
\* largest timeout (seconds) a Client is constructed with
MaxTimeout == 2
\* writes the peer makes on the connection
MaxPeerWrites == 2

(* ----------------------------- constants ------------------------------ *)
PROTOCOL_FIELDS == 4

\* metadata_delim()[0]
metadata_delim == 30

message_delim == 31

(* ------------------------- the modelled alphabet ----------------------- *)
\* Bytes the model moves around: both delimiters, ASCII letters, the two
\* bytes of U+00E9 (0xC3 0xA9) and 0xFF, which no UTF-8 text contains.
Byte == {30, 31, 97, 195, 169, 255}

\* Every scalar value whose UTF-8 encoding lies within Byte.
Char == {30, 31, 97, 233}

RECURSIVE SeqsUpTo(_, _)
SeqsUpTo(S, n) ==
  IF n = 0 THEN {<< >>}
  ELSE LET shorter == SeqsUpTo(S, n - 1)
       IN  shorter \cup {Append(s, x) : s \in {t \in shorter : Len(t) = n - 1}, x \in S}

(* ------------------------------- UTF-8 -------------------------------- *)
\* char::encode_utf8 for one scalar value
EncodeChar(c) ==
  IF c < 128 THEN << c >>
  ELSE IF c < 2048 THEN << 192 + (c \div 64), 128 + (c % 64) >>
  ELSE IF c < 65536 THEN << 224 + (c \div 4096), 128 + ((c \div 64) % 64), 128 + (c % 64) >>
  ELSE << 240 + (c \div 262144), 128 + ((c \div 4096) % 64),
          128 + ((c \div 64) % 64), 128 + (c % 64) >>

\* String::as_bytes: the UTF-8 bytes of the text
RECURSIVE as_bytes(_)
as_bytes(s) ==
  IF s = << >> THEN << >> ELSE EncodeChar(Head(s)) \o as_bytes(Tail(s))

IsCont(b) == b >= 128 /\ b <= 191

\* Width of the well-formed UTF-8 sequence that starts b, 0 when b at that
\* position cannot start one (core::str::validations::run_utf8_validation).
Utf8Width(b, i) ==
  LET n    == Len(b)
      b0   == b[i]
      at(k) == IF i + k <= n THEN b[i + k] ELSE 0
  IN  IF b0 < 128 THEN 1
      ELSE IF b0 >= 194 /\ b0 <= 223
        THEN IF IsCont(at(1)) THEN 2 ELSE 0
      ELSE IF b0 >= 224 /\ b0 <= 239
        THEN IF /\ \/ (b0 = 224 /\ at(1) >= 160 /\ at(1) <= 191)
                   \/ (b0 >= 225 /\ b0 <= 236 /\ IsCont(at(1)))
                   \/ (b0 = 237 /\ at(1) >= 128 /\ at(1) <= 159)
                   \/ (b0 >= 238 /\ IsCont(at(1)))
                /\ IsCont(at(2))
             THEN 3 ELSE 0
      ELSE IF b0 >= 240 /\ b0 <= 244
        THEN IF /\ \/ (b0 = 240 /\ at(1) >= 144 /\ at(1) <= 191)
                   \/ (b0 >= 241 /\ b0 <= 243 /\ IsCont(at(1)))
                   \/ (b0 = 244 /\ at(1) >= 128 /\ at(1) <= 143)
                /\ IsCont(at(2))
                /\ IsCont(at(3))
             THEN 4 ELSE 0
      ELSE 0

\* The scalar value of the well-formed sequence of width w at position i
DecodeChar(b, i, w) ==
  IF w = 1 THEN b[i]
  ELSE IF w = 2 THEN (b[i] - 192) * 64 + (b[i + 1] - 128)
  ELSE IF w = 3 THEN (b[i] - 224) * 4096 + (b[i + 1] - 128) * 64 + (b[i + 2] - 128)
  ELSE (b[i] - 240) * 262144 + (b[i + 1] - 128) * 4096
         + (b[i + 2] - 128) * 64 + (b[i + 3] - 128)

\* String::from_utf8: Ok(text) for well-formed UTF-8, Err otherwise
RECURSIVE Utf8From(_, _, _)
Utf8From(b, i, acc) ==
  IF i > Len(b) THEN [ok |-> TRUE, text |-> acc]
  ELSE LET w == Utf8Width(b, i)
       IN  IF w = 0 THEN [ok |-> FALSE, text |-> << >>]
           ELSE Utf8From(b, i + w, Append(acc, DecodeChar(b, i, w)))

\* Variant: String::from_utf8_lossy, U+FFFD for what is not UTF-8
from_utf8_Lossy(b) ==
  IF Utf8From(b, 1, << >>).ok THEN Utf8From(b, 1, << >>)
  ELSE [ok |-> TRUE, text |-> << 65533 >>]

from_utf8(b) == Utf8From(b, 1, << >>)

(* ------------------------------ results -------------------------------- *)
\* Result<Bytes, Box<dyn Error>> and Result<Message, Box<dyn Error>>:
\* kind "Ok", an io::ErrorKind, "FromUtf8Error", or "String" for an error
\* made from a formatted string, whose text is then the message.
NoMessage == [request_id |-> << >>, method_name |-> << >>, body |-> << >>, error |-> << >>]

Ok(m)        == [kind |-> "Ok", text |-> << >>, message |-> m]
IoErr(k)     == [kind |-> k, text |-> << >>, message |-> NoMessage]
Utf8Err      == [kind |-> "FromUtf8Error", text |-> << >>, message |-> NoMessage]
StringErr(t) == [kind |-> "String", text |-> t, message |-> NoMessage]

\* Display of a usize (format!("{}", n)), as code points
RECURSIVE Decimal(_)
Decimal(n) ==
  IF n < 10 THEN << 48 + n >> ELSE Decimal(n \div 10) \o << 48 + (n % 10) >>

\* "error protocol received message with "
TxtProtocolHead ==
  << 101,114,114,111,114,32,112,114,111,116,111,99,111,108,32,
     114,101,99,101,105,118,101,100,32,109,101,115,115,97,103,101,32,
     119,105,116,104,32 >>
\* " parts, expected "
TxtProtocolMid ==
  << 32,112,97,114,116,115,44,32,101,120,112,101,99,116,101,100,32 >>
\* "client response error: "
TxtResponse ==
  << 99,108,105,101,110,116,32,114,101,115,112,111,110,115,101,32,
     101,114,114,111,114,58,32 >>
\* "client wrong requestID error: "
TxtWrongId ==
  << 99,108,105,101,110,116,32,119,114,111,110,103,32,
     114,101,113,117,101,115,116,73,68,32,101,114,114,111,114,58,32 >>

(* ---------------------------- frame codec ------------------------------ *)
\* <[u8]>::split(|b| b == sep): the parts between the separators, in order
RECURSIVE SplitFrom(_, _, _, _)
SplitFrom(b, i, cur, parts) ==
  IF i > Len(b) THEN Append(parts, cur)
  ELSE IF b[i] = metadata_delim
    THEN SplitFrom(b, i + 1, << >>, Append(parts, cur))
    ELSE SplitFrom(b, i + 1, Append(cur, b[i]), parts)

split(b) == SplitFrom(b, 1, << >>, << >>)

\* Variant of parse_message that accepts more than PROTOCOL_FIELDS parts
parse_message_AtLeast(body) ==
  LET parts == split(body)
  IN  IF Len(parts) < PROTOCOL_FIELDS
        THEN StringErr(TxtProtocolHead \o Decimal(Len(parts))
                       \o TxtProtocolMid \o Decimal(PROTOCOL_FIELDS))
      ELSE LET rid == from_utf8(parts[1])
               mth == from_utf8(parts[2])
               err == from_utf8(parts[3])
           IN  IF ~rid.ok THEN Utf8Err
               ELSE IF ~mth.ok THEN Utf8Err
               ELSE IF ~err.ok THEN Utf8Err
               ELSE Ok([request_id  |-> rid.text,
                        method_name |-> mth.text,
                        error       |-> err.text,
                        body        |-> parts[4]])

parse_message(body) ==
  LET parts == split(body)
  IN  IF Len(parts) # PROTOCOL_FIELDS
        THEN StringErr(TxtProtocolHead \o Decimal(Len(parts))
                       \o TxtProtocolMid \o Decimal(PROTOCOL_FIELDS))
      ELSE LET rid == from_utf8(parts[1])
               mth == from_utf8(parts[2])
               err == from_utf8(parts[3])
           IN  IF ~rid.ok THEN Utf8Err
               ELSE IF ~mth.ok THEN Utf8Err
               ELSE IF ~err.ok THEN Utf8Err
               ELSE Ok([request_id  |-> rid.text,
                        method_name |-> mth.text,
                        error       |-> err.text,
                        body        |-> parts[4]])

\* BytesMut::put / put_u8: append to the buffer
put(buffer, bytes) == buffer \o bytes
put_u8(buffer, b) == Append(buffer, b)

\* Variants of message_to_bytes: error written before method_name; no
\* separator after the error field when it is empty
message_to_bytes_Swapped(r) ==
  as_bytes(r.request_id) \o << metadata_delim >> \o as_bytes(r.error)
    \o << metadata_delim >> \o as_bytes(r.method_name) \o << metadata_delim >>
    \o r.body \o << message_delim >>

message_to_bytes_NoEmptyError(r) ==
  as_bytes(r.request_id) \o << metadata_delim >> \o as_bytes(r.method_name)
    \o << metadata_delim >> \o as_bytes(r.error)
    \o (IF r.error = << >> THEN << >> ELSE << metadata_delim >>)
    \o r.body \o << message_delim >>

message_to_bytes(r) ==
  LET b0 == << >>
      b1 == put(b0, as_bytes(r.request_id))
      b2 == put(b1, << metadata_delim >>)
      b3 == put(b2, as_bytes(r.method_name))
      b4 == put(b3, << metadata_delim >>)
      b5 == put(b4, as_bytes(r.error))
      b6 == put(b5, << metadata_delim >>)
      b7 == put(b6, r.body)
      b8 == put_u8(b7, message_delim)
  IN  b8

\* Variant of the loop that keeps the terminator in message_body
RECURSIVE ReadLoop_KeepsTerminator(_, _, _)
ReadLoop_KeepsTerminator(input, i, message_body) ==
  IF i > Len(input) THEN IoErr("UnexpectedEof")
  ELSE IF input[i] = message_delim
    THEN parse_message(Append(message_body, input[i]))
  ELSE ReadLoop_KeepsTerminator(input, i + 1, Append(message_body, input[i]))

\* read_message over an in-memory reader: read_exact one byte at a time
\* until message_delim; the end of the input is io::ErrorKind::UnexpectedEof.
RECURSIVE ReadLoop(_, _, _)
ReadLoop(input, i, message_body) ==
  IF i > Len(input) THEN IoErr("UnexpectedEof")
  ELSE IF input[i] = message_delim THEN parse_message(message_body)
  ELSE ReadLoop(input, i + 1, Append(message_body, input[i]))

read_message(input) == ReadLoop(input, 1, << >>)

(* ------------------------------ state ---------------------------------- *)
VARIABLES
  cpc,          \* codec harness: "start", "encoded", "parsed", "read", "done"
  cin,          \* codec harness: the input, a Message or raw bytes
  cframe,       \* codec harness: message_to_bytes of the input Message
  cout,         \* codec harness: the decoder's result
  conn,         \* Client.conn: "Open", or "Closed" after shutdown(Both)
  timeout,      \* Client.timeout, seconds
  rcvtimeo,     \* the socket's read timeout, 0 while none is set
  pc,           \* do_request: "idle", "write", "arm", "read", "ret"
  request_id,   \* do_request's request_id
  raw_request,  \* do_request's raw_request
  buf,          \* the BufReader's buffered, unread bytes
  message_body, \* read_message's message_body
  lastRead,     \* outcome of the reader's last read: "none", "data", "eof", "timeout"
  message,      \* what read_message returned to do_request in this call
  result,       \* what do_request returned
  toPeer,       \* every byte written to the connection, in order
  sock,         \* bytes from the peer in the socket's receive queue, unread
  peerClosed,   \* the peer has closed its end
  peerWrites,   \* number of writes the peer has made
  calls,        \* number of do_request calls started
  idle,         \* seconds the pending read has been blocked
  elapsed,      \* seconds since the read timeout was armed in this call
  cleanStart,   \* history: the receive queue was empty when this call began
  answer,       \* history: what the peer wrote while this call was reading
  dropped       \* history: the bytes left in the BufReader when it was dropped

codecVars == << cpc, cin, cframe, cout >>

clientVars ==
  << conn, timeout, rcvtimeo, pc, request_id, raw_request, buf, message_body,
     lastRead, message, result >>

histVars == << cleanStart, answer, dropped >>

envVars == << toPeer, sock, peerClosed, peerWrites, calls, idle, elapsed, histVars >>

vars == << codecVars, clientVars, envVars >>

Text == SeqsUpTo(Char, MaxText)

\* Body bytes of the Messages given to the codec: both delimiters, a letter
\* and 0xFF
BodyByte == {30, 31, 97, 255}

Messages ==
  [request_id : Text, method_name : Text, error : Text,
   body : SeqsUpTo(BodyByte, MaxBody)]

NoResult == [kind |-> "None", text |-> << >>, message |-> NoMessage]

\* do_request's Result<Bytes, Box<dyn Error>>
NoReturn   == [kind |-> "None", text |-> << >>, body |-> << >>]
OkBody(b)  == [kind |-> "Ok", text |-> << >>, body |-> b]
\* the ? operator: the callee's error, returned as do_request's own
Propagate(r) == [kind |-> r.kind, text |-> r.text, body |-> << >>]

NoInput == [tag |-> "none", m |-> NoMessage, b |-> << >>]

\* BufReader::new: DEFAULT_BUF_SIZE
BufCapacity == 8192

Min(a, b) == IF a < b THEN a ELSE b

(* ------------------- codec harness: SpecCodec -------------------------- *)
\* The state right after Client::new(address, timeout) has connected
ClientInit ==
  /\ conn = "Open"
  /\ timeout \in 0..MaxTimeout
  /\ rcvtimeo = 0
  /\ pc = "idle"
  /\ request_id = << >>
  /\ raw_request = << >>
  /\ buf = << >>
  /\ message_body = << >>
  /\ lastRead = "none"
  /\ message = NoResult
  /\ result = NoReturn
  /\ toPeer = << >>
  /\ sock = << >>
  /\ peerClosed = FALSE
  /\ peerWrites = 0
  /\ calls = 0
  /\ idle = 0
  /\ elapsed = 0
  /\ cleanStart = TRUE
  /\ answer = << >>
  /\ dropped = << >>

CodecInit ==
  /\ cpc = "start"
  /\ cin \in [tag : {"msg"}, m : Messages, b : {<< >>}]
        \cup [tag : {"bytes"}, m : {NoMessage}, b : SeqsUpTo(Byte, MaxRaw)]
  /\ cframe = << >>
  /\ cout = NoResult
  /\ ClientInit
  /\ timeout = 1

\* message_to_bytes(&m)
Encode ==
  /\ cpc = "start" /\ cin.tag = "msg"
  /\ cframe' = message_to_bytes(cin.m)
  /\ cpc' = "encoded"
  /\ UNCHANGED << cin, cout, clientVars, envVars >>

\* read_message(&mut &frame[..]) on the encoded frame
DecodeFrame ==
  /\ cpc = "encoded"
  /\ cout' = read_message(cframe)
  /\ cpc' = "done"
  /\ UNCHANGED << cin, cframe, clientVars, envVars >>

\* parse_message(&bytes) on raw bytes
ParseRaw ==
  /\ cpc = "start" /\ cin.tag = "bytes"
  /\ cout' = parse_message(cin.b)
  /\ cpc' = "parsed"
  /\ UNCHANGED << cin, cframe, clientVars, envVars >>

\* read_message(&mut &bytes[..]) on raw bytes
ReadRaw ==
  /\ cpc = "start" /\ cin.tag = "bytes"
  /\ cout' = read_message(cin.b)
  /\ cpc' = "read"
  /\ UNCHANGED << cin, cframe, clientVars, envVars >>

CodecNext == Encode \/ DecodeFrame \/ ParseRaw \/ ReadRaw

SpecCodec == CodecInit /\ [][CodecNext]_vars

(* --------------------------- the Client: Spec --------------------------- *)
\* Uuid::new_v4(): a value no earlier call has drawn; the n-th call draws n.
new_v4 == calls

\* Uuid::to_string, on small values: lower-case hexadecimal digits; and a
\* variant that renders every value as the nil digit
HexDigit(n) == IF n < 10 THEN 48 + n ELSE 87 + n
UuidToString_Nil(u) == << HexDigit(0) >>
UuidToString(u) ==
  IF u < 16 THEN << HexDigit(u) >> ELSE << HexDigit(u \div 16), HexDigit(u % 16) >>

\* What callers pass to do_request: method_name "m", request_body b"b"
Methods == {<< 109 >>}
Bodies == {<< 98 >>}

\* What the peer may write: frames of its own Messages, and stray bytes
PeerMessages ==
  [request_id  : {UuidToString(u) : u \in 0..(MaxCalls - 1)},
   method_name : {<< >>},
   error       : {<< >>, << 101 >>},
   body        : {<< 255 >>}]
  \cup
  [request_id  : {UuidToString(u) : u \in 0..(MaxCalls - 1)},
   method_name : {<< 109 >>},
   error       : {<< >>},
   body        : {<< >>}]
PeerData ==
  {message_to_bytes(m) : m \in PeerMessages} \cup {<< b >> : b \in {31, 255}}

Init ==
  /\ cpc = "off" /\ cin = NoInput /\ cframe = << >> /\ cout = NoResult
  /\ ClientInit

\* do_request, lines 42-50: the fresh id, the request Message, its frame
Call(method_name, request_body) ==
  /\ pc \in {"idle", "ret"}
  /\ calls < MaxCalls
  /\ LET id      == UuidToString(new_v4)
         request == [request_id  |-> id,
                     method_name |-> method_name,
                     body        |-> request_body,
                     error       |-> << >>]
     IN  /\ request_id' = id
         /\ raw_request' = message_to_bytes(request)
  /\ calls' = calls + 1
  /\ pc' = "write"
  /\ lastRead' = "none"
  /\ message' = NoResult
  /\ result' = NoReturn
  /\ idle' = 0
  /\ elapsed' = 0
  /\ cleanStart' = (sock = << >>)
  /\ answer' = << >>
  /\ dropped' = << >>
  /\ UNCHANGED << codecVars, conn, timeout, rcvtimeo, buf, message_body, toPeer,
                  sock, peerClosed, peerWrites >>

\* Variant of WriteAll for a close that shuts down the read half only
WriteAll_AfterShutdown ==
  /\ pc = "write"
  /\ IF peerClosed
       THEN /\ result' = Propagate(IoErr("BrokenPipe"))
            /\ pc' = "ret"
            /\ UNCHANGED toPeer
       ELSE /\ toPeer' = toPeer \o raw_request
            /\ pc' = "arm"
            /\ UNCHANGED result
  /\ UNCHANGED << codecVars, conn, timeout, rcvtimeo, request_id, raw_request,
                  buf, message_body, lastRead, message, sock, peerClosed,
                  peerWrites, calls, idle, elapsed, histVars >>

\* Variant of WriteAll that writes the frame again when the first write
\* went through
WriteAll_Twice ==
  /\ pc = "write"
  /\ IF conn = "Closed" \/ peerClosed
       THEN /\ result' = Propagate(IoErr("BrokenPipe"))
            /\ pc' = "ret"
            /\ UNCHANGED toPeer
       ELSE /\ toPeer' = toPeer \o raw_request \o raw_request
            /\ pc' = "arm"
            /\ UNCHANGED result
  /\ UNCHANGED << codecVars, conn, timeout, rcvtimeo, request_id, raw_request,
                  buf, message_body, lastRead, message, sock, peerClosed,
                  peerWrites, calls, idle, elapsed, histVars >>

\* Variant of WriteAll that drops the write's error and goes on
WriteAll_ErrorIgnored ==
  /\ pc = "write"
  /\ IF conn = "Closed" \/ peerClosed
       THEN UNCHANGED toPeer
       ELSE toPeer' = toPeer \o raw_request
  /\ pc' = "arm"
  /\ UNCHANGED << codecVars, conn, timeout, rcvtimeo, request_id, raw_request,
                  buf, message_body, lastRead, message, result, sock, peerClosed,
                  peerWrites, calls, idle, elapsed, histVars >>

\* line 51: self.conn.write_all(&raw_request)?
\* A socket that was shut down, or whose peer has closed, gives EPIPE.
WriteAll ==
  /\ pc = "write"
  /\ IF conn = "Closed" \/ peerClosed
       THEN /\ result' = Propagate(IoErr("BrokenPipe"))
            /\ pc' = "ret"
            /\ UNCHANGED toPeer
       ELSE /\ toPeer' = toPeer \o raw_request
            /\ pc' = "arm"
            /\ UNCHANGED result
  /\ UNCHANGED << codecVars, conn, timeout, rcvtimeo, request_id, raw_request,
                  buf, message_body, lastRead, message, sock, peerClosed,
                  peerWrites, calls, idle, elapsed, histVars >>

\* Variant of SetReadTimeout with a message_body that outlives the call
SetReadTimeout_KeepsBody ==
  /\ pc = "arm"
  /\ IF timeout = 0
       THEN /\ result' = Propagate(IoErr("InvalidInput"))
            /\ pc' = "ret"
            /\ UNCHANGED rcvtimeo
       ELSE /\ rcvtimeo' = timeout
            /\ pc' = "read"
            /\ UNCHANGED result
  /\ buf' = << >>
  /\ idle' = 0
  /\ elapsed' = 0
  /\ UNCHANGED << codecVars, conn, timeout, request_id, raw_request, lastRead,
                  message, message_body, toPeer, sock, peerClosed, peerWrites,
                  calls, histVars >>

\* line 52: set_read_timeout(Some(Duration::from_secs(self.timeout)))?
\* (a zero Duration is refused with InvalidInput), then line 54: the new
\* BufReader, and read_message's empty message_body.
SetReadTimeout ==
  /\ pc = "arm"
  /\ IF timeout = 0
       THEN /\ result' = Propagate(IoErr("InvalidInput"))
            /\ pc' = "ret"
            /\ UNCHANGED rcvtimeo
       ELSE /\ rcvtimeo' = timeout
            /\ pc' = "read"
            /\ UNCHANGED result
  /\ buf' = << >>
  /\ message_body' = << >>
  /\ idle' = 0
  /\ elapsed' = 0
  /\ UNCHANGED << codecVars, conn, timeout, request_id, raw_request, lastRead,
                  message, toPeer, sock, peerClosed, peerWrites, calls,
                  histVars >>

\* Variants of Validate with one slip each: no correlation check; the
\* correlation check made first; the whole frame returned as the body.
Validate_NoCorrelation(msg, id) ==
  IF msg.kind # "Ok" THEN Propagate(msg)
  ELSE IF msg.message.error # << >>
    THEN Propagate(StringErr(TxtResponse \o msg.message.error))
  ELSE OkBody(msg.message.body)

Validate_CorrelationFirst(msg, id) ==
  IF msg.kind # "Ok" THEN Propagate(msg)
  ELSE IF msg.message.request_id # id
    THEN Propagate(StringErr(TxtWrongId \o msg.message.error))
  ELSE IF msg.message.error # << >>
    THEN Propagate(StringErr(TxtResponse \o msg.message.error))
  ELSE OkBody(msg.message.body)

Validate_WholeFrame(msg, id) ==
  IF msg.kind # "Ok" THEN Propagate(msg)
  ELSE IF msg.message.error # << >>
    THEN Propagate(StringErr(TxtResponse \o msg.message.error))
  ELSE IF msg.message.request_id # id
    THEN Propagate(StringErr(TxtWrongId \o msg.message.error))
  ELSE OkBody(message_to_bytes(msg.message))

\* lines 57-65: what do_request returns for read_message's result
Validate(msg, id) ==
  IF msg.kind # "Ok" THEN Propagate(msg)
  ELSE IF msg.message.error # << >>
    THEN Propagate(StringErr(TxtResponse \o msg.message.error))
  ELSE IF msg.message.request_id # id
    THEN Propagate(StringErr(TxtWrongId \o msg.message.error))
  ELSE OkBody(msg.message.body)

\* read_message's loop body after read_exact has produced `byte`
\* (lines 107-113), and do_request's lines 55-65 once the loop has ended.
\* `rest` is what stays buffered in the reader.
Consume(byte, rest) ==
  IF byte = message_delim
    THEN LET m == parse_message(message_body)
         IN  /\ message' = m
             /\ result' = Validate(m, request_id)
             /\ pc' = "ret"
             /\ buf' = << >>       \* the BufReader is dropped with its buffer
             /\ dropped' = rest
             /\ UNCHANGED message_body
    ELSE /\ message_body' = Append(message_body, byte)
         /\ buf' = rest
         /\ UNCHANGED << message, result, pc, dropped >>

\* line 106: reader.read_exact(&mut byte) served from the reader's buffer
ReadBuffered ==
  /\ pc = "read"
  /\ buf # << >>
  /\ Consume(Head(buf), Tail(buf))
  /\ UNCHANGED << codecVars, conn, timeout, rcvtimeo, request_id, raw_request,
                  lastRead, toPeer, sock, peerClosed, peerWrites, calls, idle,
                  elapsed, cleanStart, answer >>

\* line 106 with an empty buffer: the reader fills its buffer with one read
\* of whatever has arrived (at most its capacity), then serves the byte
ReadFill ==
  /\ pc = "read"
  /\ buf = << >>
  /\ sock # << >>
  /\ LET n     == Min(Len(sock), BufCapacity)
         chunk == SubSeq(sock, 1, n)
     IN  /\ sock' = SubSeq(sock, n + 1, Len(sock))
         /\ Consume(Head(chunk), Tail(chunk))
  /\ lastRead' = "data"
  /\ idle' = 0
  /\ UNCHANGED << codecVars, conn, timeout, rcvtimeo, request_id, raw_request,
                  toPeer, peerClosed, peerWrites, calls, elapsed, cleanStart,
                  answer >>

\* The peer's end is closed and nothing is left to read
AtEof == peerClosed /\ sock = << >>

\* Variant of ReadEof that takes the end of the stream for the end of the
\* frame and decodes what was accumulated
ReadEof_Decodes ==
  /\ pc = "read"
  /\ buf = << >>
  /\ AtEof
  /\ lastRead' = "eof"
  /\ message' = parse_message(message_body)
  /\ result' = Validate(message', request_id)
  /\ pc' = "ret"
  /\ UNCHANGED << codecVars, conn, timeout, rcvtimeo, request_id, raw_request,
                  buf, message_body, envVars >>

\* line 106: the read returns 0 bytes: read_exact fails with UnexpectedEof,
\* which read_message and do_request propagate
ReadEof ==
  /\ pc = "read"
  /\ buf = << >>
  /\ AtEof
  /\ lastRead' = "eof"
  /\ result' = Propagate(IoErr("UnexpectedEof"))
  /\ pc' = "ret"
  /\ UNCHANGED << codecVars, conn, timeout, rcvtimeo, request_id, raw_request,
                  buf, message_body, message, envVars >>

\* Variant of ReadTimeout that also shuts the connection down
ReadTimeout_Shutdown ==
  /\ pc = "read"
  /\ buf = << >>
  /\ sock = << >>
  /\ ~AtEof
  /\ idle = rcvtimeo
  /\ lastRead' = "timeout"
  /\ result' = Propagate(IoErr("WouldBlock"))
  /\ pc' = "ret"
  /\ conn' = "Closed"
  /\ UNCHANGED << codecVars, timeout, rcvtimeo, request_id, raw_request,
                  buf, message_body, message, envVars >>

\* line 106: the read has been blocked for the socket's read timeout: it
\* fails with WouldBlock, which read_message and do_request propagate
ReadTimeout ==
  /\ pc = "read"
  /\ buf = << >>
  /\ sock = << >>
  /\ ~AtEof
  /\ idle = rcvtimeo
  /\ lastRead' = "timeout"
  /\ result' = Propagate(IoErr("WouldBlock"))
  /\ pc' = "ret"
  /\ UNCHANGED << codecVars, conn, timeout, rcvtimeo, request_id, raw_request,
                  buf, message_body, message, envVars >>

\* A second passes while the read is blocked
Tick ==
  /\ pc = "read"
  /\ buf = << >>
  /\ sock = << >>
  /\ ~AtEof
  /\ idle < rcvtimeo
  /\ idle' = idle + 1
  /\ elapsed' = Min(elapsed + 1, MaxTimeout + 2)
  /\ UNCHANGED << codecVars, clientVars, toPeer, sock, peerClosed,
                  peerWrites, calls, histVars >>

\* Client::close: shutdown(Both)
Close ==
  /\ pc \in {"idle", "ret"}
  /\ conn' = "Closed"
  /\ UNCHANGED << codecVars, timeout, rcvtimeo, pc, request_id, raw_request,
                  buf, message_body, lastRead, message, result, envVars >>

\* do_request runs from its call to its first read without waiting on
\* anything, so what the peer does meanwhile is taken to happen before the
\* call or once the read is pending.
ClientWaits == pc \in {"idle", "read", "ret"}

\* The peer writes a frame or a stray byte, which arrives in the socket's
\* receive queue
PeerWrite(data) ==
  /\ ClientWaits
  /\ conn = "Open" /\ ~peerClosed
  /\ peerWrites < MaxPeerWrites
  /\ sock' = sock \o data
  /\ peerWrites' = peerWrites + 1
  /\ answer' = IF pc = "read" THEN answer \o data ELSE answer
  /\ UNCHANGED << codecVars, clientVars, toPeer, peerClosed, calls, idle, elapsed,
                  cleanStart, dropped >>

\* The peer closes its end
PeerClose ==
  /\ ClientWaits
  /\ conn = "Open" /\ ~peerClosed
  /\ peerClosed' = TRUE
  /\ UNCHANGED << codecVars, clientVars, toPeer, sock, peerWrites, calls,
                  idle, elapsed, histVars >>

Next ==
  \/ \E mn \in Methods, rb \in Bodies : Call(mn, rb)
  \/ WriteAll
  \/ SetReadTimeout
  \/ ReadBuffered
  \/ ReadFill
  \/ ReadEof
  \/ ReadTimeout
  \/ Tick
  \/ Close
  \/ \E d \in PeerData : PeerWrite(d)
  \/ PeerClose

Spec == Init /\ [][Next]_vars

(* ======================= claims: frame codec =========================== *)
\* Helpers of the claims, written on the wire bytes alone.
CountOf(x, b) == Cardinality({i \in 1..Len(b) : b[i] = x})
DelimFree(b) == CountOf(30, b) = 0 /\ CountOf(31, b) = 0

\* The three positions of 0x1E in a byte sequence holding exactly three
SepAt(b, k) ==
  CHOOSE i \in 1..Len(b) :
    b[i] = 30 /\ Cardinality({j \in 1..i : b[j] = 30}) = k
Part1(b) == SubSeq(b, 1, SepAt(b, 1) - 1)
Part2(b) == SubSeq(b, SepAt(b, 1) + 1, SepAt(b, 2) - 1)
Part3(b) == SubSeq(b, SepAt(b, 2) + 1, SepAt(b, 3) - 1)
Part4(b) == SubSeq(b, SepAt(b, 3) + 1, Len(b))

\* b is the UTF-8 encoding of some text
ValidText(b) == \E s \in SeqsUpTo(Char, Len(b)) : as_bytes(s) = b

\* The bytes of a frame that precede its first 0x1F
BeforeTerminator(f) ==
  LET stops == {i \in 1..Len(f) : f[i] = 31}
  IN  SubSeq(f, 1, (CHOOSE i \in stops : \A j \in stops : i <= j) - 1)

TextFieldsClean(m) ==
  /\ DelimFree(as_bytes(m.request_id))
  /\ DelimFree(as_bytes(m.method_name))
  /\ DelimFree(as_bytes(m.error))

\* C1 (as stated): decode(encode(m)) = m for every Message whose three text
\* fields hold neither 0x1E nor 0x1F, the body being any byte sequence.
C1_RoundTripAnyBody ==
  (cpc = "done" /\ TextFieldsClean(cin.m)) => cout = Ok(cin.m)

\* C1 (amended): decode(encode(m)) = m, field for field, for every Message
\* none of whose four fields (the body included) holds 0x1E or 0x1F.
C1_RoundTrip ==
  (cpc = "done" /\ TextFieldsClean(cin.m) /\ DelimFree(cin.m.body))
    => cout = Ok(cin.m)

C1_Witness ==
  /\ cpc = "done"
  /\ TextFieldsClean(cin.m) /\ DelimFree(cin.m.body)
  /\ cin.m.request_id = << 233 >> /\ cin.m.error = << 97 >>
  /\ cin.m.body = << 255, 97 >>
  /\ cout = Ok(cin.m)

\* C5: decoding a byte sequence that holds a number of 0x1E bytes other than
\* three (so splits into fewer or more than 4 parts), also when the extra
\* 0x1E lies in the body of an encoded Message, fails with the protocol
\* error and yields no Message.
C5_CardinalityRejection ==
  LET rejected(b) ==
        /\ cout.kind = "String"
        /\ cout.text = TxtProtocolHead \o Decimal(CountOf(30, b) + 1)
                       \o TxtProtocolMid \o << 52 >>
        /\ cout.message = NoMessage
  IN  /\ (cpc = "parsed" /\ CountOf(30, cin.b) # 3) => rejected(cin.b)
      /\ (cpc = "done" /\ CountOf(30, BeforeTerminator(cframe)) # 3)
            => rejected(BeforeTerminator(cframe))

C5_Witness ==
  /\ cpc = "done"
  /\ TextFieldsClean(cin.m)
  /\ cin.m.body = << 97, 30 >>
  /\ cout.kind = "String"

\* C9: the frame of a Message is its request_id bytes, 0x1E, its method_name
\* bytes, 0x1E, its error bytes, 0x1E, its body bytes, 0x1F, and nothing
\* else; with fields free of 0x1E/0x1F it holds exactly three 0x1E and one
\* 0x1F, its last byte.
C9_WireLayout ==
  (cpc \in {"encoded", "done"}) =>
    LET r  == as_bytes(cin.m.request_id)
        mn == as_bytes(cin.m.method_name)
        e  == as_bytes(cin.m.error)
        bd == cin.m.body
        f  == cframe
        o1 == Len(r)
        o2 == o1 + 1 + Len(mn)
        o3 == o2 + 1 + Len(e)
        o4 == o3 + 1 + Len(bd)
    IN  /\ Len(f) = o4 + 1
        /\ \A i \in 1..Len(r)  : f[i] = r[i]
        /\ f[o1 + 1] = 30
        /\ \A i \in 1..Len(mn) : f[o1 + 1 + i] = mn[i]
        /\ f[o2 + 1] = 30
        /\ \A i \in 1..Len(e)  : f[o2 + 1 + i] = e[i]
        /\ f[o3 + 1] = 30
        /\ \A i \in 1..Len(bd) : f[o3 + 1 + i] = bd[i]
        /\ f[o4 + 1] = 31
        /\ (TextFieldsClean(cin.m) /\ DelimFree(bd))
              => (CountOf(30, f) = 3 /\ CountOf(31, f) = 1)

C9_Witness ==
  /\ cpc = "encoded"
  /\ cin.m.request_id = << 233 >> /\ cin.m.method_name = << 97 >>
  /\ cin.m.error = << >> /\ cin.m.body = << 255, 97 >>
  /\ cframe = << 195, 169, 30, 97, 30, 30, 255, 97, 31 >>

\* C10: decoding bytes that split into exactly 4 parts fails with the
\* UTF-8 error and yields no Message when one of the first three parts is
\* not UTF-8 text; when all three are, it succeeds and the fourth part is
\* taken as the body byte for byte, whatever it holds.
C10_TextValidity ==
  (cpc = "parsed" /\ CountOf(30, cin.b) = 3) =>
    IF ValidText(Part1(cin.b)) /\ ValidText(Part2(cin.b)) /\ ValidText(Part3(cin.b))
      THEN /\ cout.kind = "Ok"
           /\ as_bytes(cout.message.request_id) = Part1(cin.b)
           /\ as_bytes(cout.message.method_name) = Part2(cin.b)
           /\ as_bytes(cout.message.error) = Part3(cin.b)
           /\ cout.message.body = Part4(cin.b)
      ELSE /\ cout.kind = "FromUtf8Error"
           /\ cout.message = NoMessage

C10_Witness ==
  /\ cpc = "parsed"
  /\ cin.b = << 97, 30, 30, 169, 30 >>
  /\ cout.kind = "FromUtf8Error"

(* ========================= claims: Client ============================== *)
\* t occurs in s as a contiguous run
Contains(s, t) ==
  \E i \in 0..(Len(s) - Len(t)) : SubSeq(s, i + 1, i + Len(t)) = t

Decoded == pc = "ret" /\ message.kind = "Ok"

\* C2: when the decoded response carries a request_id other than the one
\* generated for the call and an empty error field, do_request fails with
\* the wrong-requestID error and returns no body.
C2_CorrelationEnforced ==
  (Decoded /\ message.message.error = << >>
           /\ message.message.request_id # request_id)
    => (result.kind = "String" /\ result.text = TxtWrongId /\ result.body = << >>)

C2_Witness ==
  /\ Decoded
  /\ message.message.error = << >>
  /\ message.message.request_id # request_id
  /\ message.message.body = << 255 >>
  /\ result.kind = "String"

\* C3: when the decoded response has a non-empty error field, do_request
\* fails with the application error "client response error: <error>", which
\* holds the peer's text verbatim, whether or not the request_id matches.
C3_ApplicationErrorFirst ==
  (Decoded /\ message.message.error # << >>)
    => /\ result.kind = "String"
       /\ result.text = TxtResponse \o message.message.error
       /\ Contains(result.text, message.message.error)
       /\ result.body = << >>

C3_Witness ==
  /\ Decoded
  /\ message.message.error = << 101 >>
  /\ message.message.request_id # request_id
  /\ result.text = TxtResponse \o << 101 >>

\* C4 (as stated): once the configured timeout has passed since the read
\* timeout was armed and no terminator has arrived, do_request is no longer
\* reading: it has failed with the timeout error.
C4_ReadPhaseBounded ==
  (pc = "read") => elapsed <= timeout

C7_EndOfStream ==
  (lastRead = "eof")
    => /\ pc = "ret"
       /\ result.kind = "UnexpectedEof"
       /\ result.body = << >>
       /\ message = NoResult

C7_Witness ==
  /\ lastRead = "eof"
  /\ message_body = << 255, 255 >>
  /\ result.kind = "UnexpectedEof"

\* C8: once close() has been called the Client stays Closed, nothing more
\* is written to or read from the connection, and every later do_request
\* returns an error, never a body.
C8_ClosedStaysClosed ==
  [][(conn = "Closed") =>
       /\ conn' = "Closed"
       /\ toPeer' = toPeer
       /\ sock' = sock
       /\ pc' \notin {"arm", "read"}
       /\ (pc = "write" => (pc' = "ret" /\ result'.kind \notin {"Ok", "None"}))]_vars

C8_Witness ==
  /\ conn = "Closed"
  /\ pc = "ret"
  /\ calls = 2
  /\ result.kind = "BrokenPipe"
  /\ Len(toPeer) > 0
  /\ sock # << >>

\* The frame a request must be on the wire: id, 0x1E, method_name, 0x1E,
\* an empty error, 0x1E, request_body, 0x1F
RequestFrames(id) ==
  {as_bytes(id) \o << 30 >> \o as_bytes(mn) \o << 30, 30 >> \o rb \o << 31 >> :
     mn \in Methods, rb \in Bodies}

IsSuffix(t, s) == Len(t) <= Len(s) /\ SubSeq(s, Len(s) - Len(t) + 1, Len(s)) = t

\* C11: a call writes at most one frame, the encoding of Message{fresh id,
\* method_name, "", request_body}; a failure is returned in the step that
\* meets it, with no further write, no reconnect and no body, and nothing
\* happens on the Client after a return until the next call or close.
C11_NoRetryNoSalvage ==
  /\ [](CountOf(31, toPeer) <= calls)
  /\ [][/\ (toPeer' # toPeer) =>
             /\ pc = "write" /\ pc' = "arm"
             /\ CountOf(31, toPeer) = calls - 1
             /\ \E f \in RequestFrames(request_id) : toPeer' = toPeer \o f
        /\ (pc # "ret" /\ pc' = "ret" /\ result'.kind # "Ok") =>
             /\ toPeer' = toPeer
             /\ conn' = conn
             /\ result'.body = << >>
        /\ (pc = "ret" /\ pc' # "ret") => (pc' = "write" /\ calls' = calls + 1)
        /\ (pc = "ret") => ((toPeer' = toPeer /\ result' = result) \/ calls' = calls + 1)
        /\ (conn = "Closed") => (conn' = "Closed")]_vars

C11_Witness ==
  /\ pc = "ret"
  /\ calls = 2
  /\ result.kind = "String"
  /\ CountOf(31, toPeer) = 2
  /\ toPeer = << 48, 30, 109, 30, 30, 98, 31, 49, 30, 109, 30, 30, 98, 31 >>

\* C12: within a call the whole request frame is on the wire before the
\* read timeout is armed and before any byte is read; when the write fails
\* the call returns the I/O error and neither arms nor reads.
C12_HalfDuplex ==
  /\ [](pc \in {"arm", "read"} =>
          /\ CountOf(31, toPeer) = calls
          /\ \E f \in RequestFrames(request_id) : IsSuffix(f, toPeer))
  /\ [][/\ (rcvtimeo' # rcvtimeo) => (pc = "arm" /\ toPeer' = toPeer)
        /\ (Len(sock') < Len(sock) \/ lastRead' \notin {lastRead, "none"}) =>
             (pc = "read" /\ rcvtimeo = timeout /\ toPeer' = toPeer)
        /\ (pc = "write" /\ pc' = "ret") =>
             /\ result'.kind = "BrokenPipe"
             /\ toPeer' = toPeer /\ rcvtimeo' = rcvtimeo /\ sock' = sock
             /\ lastRead' = "none"]_vars

C12_Witness ==
  /\ pc = "ret"
  /\ result.kind = "BrokenPipe"
  /\ lastRead = "none"
  /\ sock # << >>
  /\ calls = 2
  /\ CountOf(31, toPeer) = 1

\* The peer's correct answers to the call in progress
CorrectAnswers == {m \in PeerMessages : m.request_id = request_id /\ m.error = << >>}

\* C13 (as stated): a call that follows another returns the body of its own
\* correct response: when what the peer sent in answer to the call is
\* exactly a frame with the call's request_id and an empty error, the call
\* returns that frame's body, whatever happened in the calls before.
C13_OwnResponseReturned ==
  (pc = "ret" /\ calls >= 2) =>
    \A m \in CorrectAnswers :
      (answer = message_to_bytes(m)) => result = OkBody(m.body)

\* C13 (amended): the same, for a call that began with no bytes of the peer
\* left unread on the connection.
C13_OwnResponseOnCleanStream ==
  (pc = "ret" /\ calls >= 2 /\ cleanStart) =>
    \A m \in CorrectAnswers :
      (answer = message_to_bytes(m)) => result = OkBody(m.body)

\* The second call returns its body; the peer wrote nothing else, so the
\* first call got no response and failed.
C13_Witness ==
  /\ pc = "ret" /\ calls = 2 /\ cleanStart
  /\ peerWrites = 1
  /\ answer = << 49, 30, 30, 30, 255, 31 >>
  /\ result = OkBody(<< 255 >>)

\* C14 (as stated): no byte the peer sent after a terminator is lost
\* between calls: the reader holds no unread bytes when it is dropped.
C14_NoByteLost ==
  dropped = << >>

\* C15: what read_message hands to the decoder is the input up to its first
\* 0x1F, that byte excluded; without a 0x1F nothing is decoded and the
\* result is UnexpectedEof.
C15_FrameExtraction ==
  (cpc = "read") =>
    IF CountOf(31, cin.b) = 0
      THEN cout = IoErr("UnexpectedEof")
      ELSE /\ cout = parse_message(BeforeTerminator(cin.b))
           /\ CountOf(31, BeforeTerminator(cin.b)) = 0
           /\ (cout.kind = "Ok") =>
                message_to_bytes(cout.message) = BeforeTerminator(cin.b) \o << 31 >>

C15_Witness ==
  /\ cpc = "read"
  /\ cin.b = << 30, 30, 30, 31, 97 >>
  /\ cout = Ok([request_id |-> << >>, method_name |-> << >>, body |-> << >>,
                error |-> << >>])

\* C16: do_request returns a body exactly when the bytes it read up to the
\* terminator split into 4 parts, the first the request_id of this very
\* call, the second UTF-8 text and the third empty; the body returned is
\* then the fourth part; and no earlier request carried this call's id.
C16_OnlyOwnResponse ==
  /\ (pc = "ret") =>
       (result.kind = "Ok" <=>
          /\ message.kind # "None"
          /\ CountOf(30, message_body) = 3
          /\ Part1(message_body) = as_bytes(request_id)
          /\ \E mn \in SeqsUpTo(Char \cup {109}, Len(Part2(message_body))) :
               as_bytes(mn) = Part2(message_body)
          /\ Part3(message_body) = << >>)
  /\ (pc = "ret" /\ result.kind = "Ok") => result.body = Part4(message_body)
  /\ (pc # "idle") =>
       \A k \in 1..Len(toPeer) :
         ((k = 1 \/ toPeer[k - 1] = 31)
            /\ CountOf(31, SubSeq(toPeer, 1, k - 1)) < calls - 1) =>
           Part1(SubSeq(toPeer, k, Len(toPeer))) # as_bytes(request_id)

\* The second call has read the response to the first and rejects it.
C16_Witness ==
  /\ pc = "ret" /\ calls = 2
  /\ message_body = << 48, 30, 30, 30, 255 >>
  /\ request_id = << 49 >>
  /\ result.kind = "String"
  /\ answer = << 49, 30, 30, 30, 255, 31 >>

\* C17 (as stated): a call whose write went through goes on to read: it
\* never returns without a read having been made, whatever the timeout.
C17_ReadsAfterWrite ==
  (pc = "ret" /\ result.kind # "BrokenPipe") => lastRead # "none"

\* C18: no step of do_request shuts the connection down or changes the
\* configured timeout: the connection changes state only by close(), and the
\* socket's read timeout is unset or the configured value, the configured
\* value whenever a call is reading.
C18_FrameOfDoRequest ==
  /\ [](rcvtimeo \in {0, timeout} /\ (pc = "read" => rcvtimeo = timeout))
  /\ [][/\ timeout' = timeout
        /\ (conn' # conn) =>
             /\ conn = "Open" /\ conn' = "Closed"
             /\ pc \in {"idle", "ret"} /\ pc' = pc /\ calls' = calls
             /\ result' = result /\ toPeer' = toPeer /\ sock' = sock
        /\ (rcvtimeo' # rcvtimeo) => (pc = "arm" /\ rcvtimeo' = timeout)]_vars

\* The second call has timed out like the first; the connection is open.
C18_Witness ==
  /\ pc = "ret" /\ calls = 2
  /\ result.kind = "WouldBlock"
  /\ conn = "Open"
  /\ timeout = 2 /\ rcvtimeo = 2

=============================================================================
